---- MODULE Spec2Model ----
(***************************************************************************)
(* Model of BdkInterface (src/src/index.ts, compiled to src/lib/index.js): *)
(* the validation-and-derivation facade in front of the native wallet      *)
(* engine NativeModules.BdkRnModule.                                       *)
(*                                                                         *)
(* One invocation of a facade operation is in progress at a time.  An      *)
(* invocation runs synchronously up to its first await of an engine call,  *)
(* is resumed when the engine returns or throws, and ends by returning an  *)
(* envelope (or by letting an exception escape).                           *)
(*                                                                         *)
(* JavaScript values are tagged records; JavaScript strings are sequences  *)
(* of one-character strings, so that concatenation, includes(' ') and      *)
(* numeric conversion are computed character by character.                 *)
(***************************************************************************)
EXTENDS Integers, Sequences, FiniteSets, TLC

(***************************************************************************)
(* Bounds of the model.                                                    *)
(***************************************************************************)
MaxKeys == 2          \* longest publicKeys list
MaxThreshold == 4     \* largest threshold tried (smallest is -MaxNegThreshold)
MaxNegThreshold == 1
MaxDescLen == 2       \* longest createWallet descriptor
MaxAmountLen == 2     \* longest broadcastTx amount string

(***************************************************************************)
(* JavaScript values.                                                      *)
(***************************************************************************)
UNDEF == [t |-> "undefined"]
NULL == [t |-> "null"]
NaN == [t |-> "NaN"]
Num(n) == [t |-> "number", n |-> n]
Str(s) == [t |-> "string", s |-> s]
Arr(a) == [t |-> "array", a |-> a]
Obj(f) == [t |-> "object", f |-> f]

IsStr(v) == v.t = "string"
IsNum(v) == v.t = "number"

EmptyStr == Str(<< >>)

\* String literals of the source, as character sequences.
L_testnet == <<"t","e","s","t","n","e","t">>
L_bitcoin == <<"b","i","t","c","o","i","n">>
L_undefined == <<"u","n","d","e","f","i","n","e","d">>
L_null == <<"n","u","l","l">>
L_NaN == <<"N","a","N">>
L_defaultPath == <<"/","8","4","'","/","1","'","/","0","'","/","0","/","*">>
L_default == <<"d","e","f","a","u","l","t">>
L_p2wpkh == <<"p","2","w","p","k","h">>
L_wpkh == <<"w","p","k","h">>
L_p2pkh == <<"p","2","p","k","h">>
L_pkh == <<"p","k","h">>
L_shp2wpkh == <<"s","h","p","2","w","p","k","h">>
L_p2shp2wpkh == <<"p","2","s","h","p","2","w","p","k","h">>
L_shwpkh == <<"s","h","(","w","p","k","h">>
L_shmulti == <<"s","h","(","m","u","l","t","i","(">>
L_MULTI == <<"M","U","L","T","I">>

Digits == <<"0","1","2","3","4","5","6","7","8","9">>
DigitSet == {Digits[i] : i \in 1..10}
DigitValue(c) == (CHOOSE i \in 1..10 : Digits[i] = c) - 1
WhiteSpace == {" ", "\t", "\n"}

(***************************************************************************)
(* Conversions.                                                            *)
(***************************************************************************)
RECURSIVE NatToString(_)
NatToString(n) ==
  IF n < 10 THEN <<Digits[n + 1]>>
  ELSE NatToString(n \div 10) \o <<Digits[(n % 10) + 1]>>

\* Number::toString for integers.
NumberToString(n) == IF n < 0 THEN <<"-">> \o NatToString(0 - n) ELSE NatToString(n)

RECURSIVE Join(_, _)
\* Array.prototype.join over an array of strings.
Join(a, sep) ==
  IF Len(a) = 0 THEN << >>
  ELSE IF Len(a) = 1 THEN a[1].s
  ELSE a[1].s \o sep \o Join(Tail(a), sep)

\* ToString as applied by a template literal `${v}`.
ToString_(v) ==
  CASE v.t = "undefined" -> L_undefined
    [] v.t = "null" -> L_null
    [] v.t = "NaN" -> L_NaN
    [] v.t = "number" -> NumberToString(v.n)
    [] v.t = "string" -> v.s
    [] v.t = "array" -> Join(v.a, <<",">>)

\* ToBoolean: undefined, null, NaN, 0 and '' are falsy.
Truthy(v) ==
  CASE v.t = "undefined" -> FALSE
    [] v.t = "null" -> FALSE
    [] v.t = "NaN" -> FALSE
    [] v.t = "number" -> v.n # 0
    [] v.t = "string" -> v.s # << >>
    [] OTHER -> TRUE

RECURSIVE TrimLeft(_)
TrimLeft(s) == IF s # << >> /\ Head(s) \in WhiteSpace THEN TrimLeft(Tail(s)) ELSE s

RECURSIVE TrimRight(_)
TrimRight(s) ==
  IF s # << >> /\ s[Len(s)] \in WhiteSpace THEN TrimRight(SubSeq(s, 1, Len(s) - 1)) ELSE s

RECURSIVE DigitsToNat(_)
DigitsToNat(s) ==
  IF s = << >> THEN 0
  ELSE 10 * DigitsToNat(SubSeq(s, 1, Len(s) - 1)) + DigitValue(s[Len(s)])

\* StringToNumber: surrounding white space is stripped, the empty string is
\* 0, a run of decimal digits is its value, anything else is NaN.
StringToNumber(s) ==
  LET body == TrimRight(TrimLeft(s))
  IN  IF body = << >> THEN Num(0)
      ELSE IF \A i \in 1..Len(body) : body[i] \in DigitSet THEN Num(DigitsToNat(body))
      ELSE NaN

\* ToNumber.
ToNumber(v) ==
  CASE v.t = "undefined" -> NaN
    [] v.t = "null" -> Num(0)
    [] v.t = "NaN" -> NaN
    [] v.t = "number" -> v
    [] v.t = "string" -> StringToNumber(v.s)

\* The global isNaN(v): ToNumber(v) is NaN.
isNaN(v) == ToNumber(v) = NaN

\* String.prototype.includes for a one-character needle.
includes(s, c) == \E i \in 1..Len(s) : s[i] = c

(***************************************************************************)
(* ./lib/utils: the existence predicate and the result envelope.           *)
(***************************************************************************)
_exists(v) == v # UNDEF /\ v # NULL /\ v # EmptyStr

success(data) == [ok |-> TRUE, data |-> data]
failure(e) == [ok |-> FALSE, error |-> e]

\* Reading `.data` of an envelope: a failure envelope has no data property.
DataOf(env) == IF env.ok THEN env.data ELSE UNDEF

\* Outcome of a block of code: a value, or a thrown condition.
Value(v) == [thrown |-> FALSE, v |-> v]
Thrown(e) == [thrown |-> TRUE, e |-> e]

\* Property read `args.f`: reading a property of undefined or null throws.
Nullish(v) == v = UNDEF \/ v = NULL
Field(args, name) == IF name \in DOMAIN args.f THEN args.f[name] ELSE UNDEF

TypeError == "TypeError"
EngineError == "EngineError"

(***************************************************************************)
(* State.                                                                  *)
(***************************************************************************)
VARIABLES
  pc,        \* "idle", "await", "awaitConfirmed", "awaitPending" or "done"
  op,        \* the facade operation invoked
  args,      \* its request record (or undefined / null)
  calls,     \* the engine calls of this invocation, in the order issued
  result,    \* the envelope returned
  returned,  \* how many envelopes this invocation has returned
  escaped    \* an exception reached the caller

vars == <<pc, op, args, calls, result, returned, escaped>>

NoResult == [none |-> TRUE]
Pending == [pending |-> TRUE]

\* this._bdk.<name>(...a): the call is issued and awaited.
EngineCall(name, a) == [name |-> name, args |-> a, outcome |-> Pending]

InFlight == {i \in 1..Len(calls) : calls[i].outcome = Pending}

Settle(cs, o) == [cs EXCEPT ![Len(cs)].outcome = o]

\* Entry of an invocation on the BdkRn instance.
Begin(name, a) ==
  /\ pc = "idle"
  /\ op' = name
  /\ args' = a

\* The invocation suspends at `await this._bdk.<name>(...)`.
Suspend(label, cs) ==
  /\ pc' = label
  /\ calls' = cs
  /\ result' = NoResult
  /\ returned' = 0
  /\ escaped' = FALSE

\* try { ...; return success(v) } catch (e) { return failure(e) }
Envelope(o) == IF o.thrown THEN failure(o.e) ELSE success(o.v)

\* Return with the request record destructured before the try: the
\* TypeError of a missing record reaches the caller.
ReturnDestructuredOutsideTry(o, n) ==
  IF o.thrown /\ o.e = "TypeError"
  THEN /\ pc' = "done"
       /\ result' = NoResult
       /\ returned' = n
       /\ escaped' = TRUE
  ELSE /\ pc' = "done"
       /\ result' = Envelope(o)
       /\ returned' = n + 1
       /\ escaped' = FALSE

\* The invocation completes with the outcome o of its try body.
Return(o, n) ==
  /\ pc' = "done"
  /\ result' = Envelope(o)
  /\ returned' = n + 1
  /\ escaped' = FALSE

Init ==
  /\ pc = "idle"
  /\ op = "none"
  /\ args = UNDEF
  /\ calls = << >>
  /\ result = NoResult
  /\ returned = 0
  /\ escaped = FALSE

\* The caller has the envelope; the one exported instance BdkRn, which keeps
\* nothing of the invocation, takes the next one.
nextInvocation ==
  /\ pc = "done"
  /\ pc' = "idle"
  /\ op' = "none"
  /\ args' = UNDEF
  /\ calls' = << >>
  /\ result' = NoResult
  /\ returned' = 0
  /\ escaped' = FALSE

(***************************************************************************)
(* Behaviour of the engine: each capability returns a value or throws.     *)
(***************************************************************************)
Chr(c) == Str(<<c>>)

EngineXprv == Chr("K")
KeyInfos == {Obj([xprv |-> EngineXprv, xpub |-> Chr("Q")]), Obj([xpub |-> Chr("Q")]), NULL}
TxLists(c) == {Arr(<< >>), Arr(<<Chr(c)>>)}

EngineValues(name) ==
  CASE name = "getExtendedKeyInfo" -> KeyInfos
    [] name = "getConfirmedTransactions" -> TxLists("c")
    [] name = "getPendingTransactions" -> TxLists("p")
    [] OTHER -> {Chr("r")}

EngineOutcomes(name) == {Value(v) : v \in EngineValues(name)} \cup {Thrown(EngineError)}

\* const r = await this._bdk.<name>(...); return success(r);
Resume(name) ==
  /\ pc = "await"
  /\ op = name
  /\ \E o \in EngineOutcomes(calls[Len(calls)].name) :
       /\ calls' = Settle(calls, o)
       /\ Return(o, returned)
  /\ UNCHANGED <<op, args>>

(***************************************************************************)
(* generateMnemonic                                                        *)
(***************************************************************************)
entropyToLength(entropy) ==
  LET key == ToString_(entropy)
  IN  CASE key = <<"1","2","8">> -> Num(12)
        [] key = <<"1","6","0">> -> Num(15)
        [] key = <<"1","9","2">> -> Num(18)
        [] key = <<"2","2","4">> -> Num(21)
        [] key = <<"2","5","6">> -> Num(24)
        [] OTHER -> UNDEF

resolveWordCount(a) ==
  LET entropy == Field(a, "entropy")
      length == Field(a, "length")
  IN  IF Truthy(entropy) /\ Truthy(length) THEN entropyToLength(entropy)
      ELSE IF ~Truthy(entropy) /\ ~Truthy(length) THEN Num(12)
      ELSE length

\* resolveNetwork with the condition inverted: testnet only as a default.
resolveNetworkAsDefault(a) ==
  LET network == Field(a, "network")
  IN  IF ~_exists(network) THEN Str(L_testnet) ELSE network

resolveNetwork(a) ==
  LET network == Field(a, "network")
  IN  IF _exists(network) THEN Str(L_testnet) ELSE network

Entropies == {UNDEF, Num(128), Num(160), Num(192), Num(224), Num(256), Num(100)}
Lengths == {UNDEF, Num(0), Num(12), Num(15), Num(24)}
Networks == {UNDEF, NULL, EmptyStr, Str(L_testnet), Str(L_bitcoin)}

GenerateMnemonicRequests ==
  {Obj([entropy |-> e, length |-> l, network |-> n]) :
     e \in Entropies, l \in Lengths, n \in Networks}

generateMnemonic ==
  \E a \in GenerateMnemonicRequests \cup {UNDEF, NULL} :
    /\ Begin("generateMnemonic", a)
    /\ LET a1 == IF a = UNDEF THEN Obj([length |-> Num(12)]) ELSE a
       IN  IF Nullish(a1)
           THEN /\ calls' = << >>
                /\ Return(Thrown(TypeError), 0)
           ELSE Suspend("await",
                  <<EngineCall("generateMnemonic", <<resolveWordCount(a1), resolveNetwork(a1)>>)>>)

generateMnemonicResume == Resume("generateMnemonic")

(***************************************************************************)
(* createExtendedKey, createXprv                                           *)
(***************************************************************************)
Mnemonics == {UNDEF, EmptyStr, Chr("m")}
Passwords == {UNDEF, Chr("w")}
KeyNetworks == {UNDEF, EmptyStr, Str(L_testnet)}

ExtendedKeyRequests ==
  {Obj([network |-> n, mnemonic |-> m, password |-> p]) :
     n \in KeyNetworks, m \in Mnemonics, p \in Passwords}

\* const { network, mnemonic, password } = args;
\* ... await this._bdk.getExtendedKeyInfo(network, mnemonic, password);
getExtendedKeyInfoCall(a) ==
  EngineCall("getExtendedKeyInfo",
             <<Field(a, "network"), Field(a, "mnemonic"), Field(a, "password")>>)

createExtendedKey ==
  \E a \in ExtendedKeyRequests \cup {UNDEF, NULL} :
    /\ Begin("createExtendedKey", a)
    /\ IF Nullish(a)
       THEN /\ calls' = << >>
            /\ Return(Thrown(TypeError), 0)
       ELSE Suspend("await", <<getExtendedKeyInfoCall(a)>>)

createExtendedKeyResume == Resume("createExtendedKey")

\* The body of createXprv after its await: return success(keyInfo.xprv),
\* where reading .xprv of undefined or null throws.
createXprvBody(o) ==
  IF o.thrown THEN o
  ELSE IF Nullish(o.v) THEN Thrown(TypeError)
  ELSE Value(Field(o.v, "xprv"))

createXprv ==
  \E a \in ExtendedKeyRequests \cup {UNDEF, NULL} :
    /\ Begin("createXprv", a)
    /\ IF Nullish(a)
       THEN /\ calls' = << >>
            /\ Return(Thrown(TypeError), 0)
       ELSE Suspend("await", <<getExtendedKeyInfoCall(a)>>)

createXprvResume ==
  /\ pc = "await"
  /\ op = "createXprv"
  /\ \E o \in EngineOutcomes("getExtendedKeyInfo") :
       /\ calls' = Settle(calls, o)
       /\ Return(createXprvBody(o), returned)
  /\ UNCHANGED <<op, args>>

(***************************************************************************)
(* createDescriptor                                                        *)
(***************************************************************************)
MsgKeyMissing == "Required param mnemonic or xprv is missing."
MsgKeyBoth == "Only one parameter is required either mnemonic or xprv."
MsgMnemonicNetwork == "One or more required parameters are emtpy(Mnemonic, Network)."
MsgXprvRequired == "XPRV is required"
MsgMultiInvalid == "Thresold or publicKeys values are invalid."
MsgThresholdInvalid == "Thresold value is invalid."

\* checkKeySource with the mnemonic-and-network check made first.
checkKeySourceNetworkFirst(xprv, mnemonic, network) ==
  IF ~_exists(xprv) /\ (~_exists(mnemonic) \/ ~_exists(network)) THEN MsgMnemonicNetwork
  ELSE IF _exists(xprv) /\ _exists(mnemonic) THEN MsgKeyBoth
  ELSE IF ~_exists(xprv) THEN "derive"
  ELSE "ok"

\* The checks of the key source, up to the derivation of the xprv:
\* the message thrown, "derive" when createXprv is to be called, else "ok".
checkKeySource(xprv, mnemonic, network) ==
  IF ~_exists(xprv) /\ ~_exists(mnemonic) THEN MsgKeyMissing
  ELSE IF _exists(xprv) /\ _exists(mnemonic) THEN MsgKeyBoth
  ELSE LET useMnemonic == ~_exists(xprv)
       IN  IF useMnemonic
           THEN IF ~_exists(mnemonic) \/ ~_exists(network) THEN MsgMnemonicNetwork
                ELSE "derive"
           ELSE "ok"

\* switch (type) { ... }: the method token; '' for a type no case names.
methodOf(type) ==
  IF type \in {Str(L_default), NULL, UNDEF, EmptyStr, Str(L_p2wpkh), Str(L_wpkh)} THEN L_wpkh
  ELSE IF type \in {Str(L_p2pkh), Str(L_pkh)} THEN L_pkh
  ELSE IF type \in {Str(L_shp2wpkh), Str(L_p2shp2wpkh)} THEN L_shwpkh
  ELSE << >>

\* `${method}(${xprv}${path})`
singleDescriptor(type, xprv, path) ==
  methodOf(type) \o <<"(">> \o ToString_(xprv) \o ToString_(path) \o <<")">>

\* The two checks of the MULTI branch: the message thrown, or "ok".
checkMulti(threshold, publicKeys) ==
  IF ~Truthy(threshold) \/ ~Truthy(publicKeys) \/ Len(publicKeys.a) = 0
  THEN MsgMultiInvalid
  ELSE IF threshold.n = 0 \/ threshold.n > Len(publicKeys.a) + 1 THEN MsgThresholdInvalid
  ELSE "ok"

\* `sh(multi(${threshold}${xprv},${publicKeys?.join(',')}${path}))`
multiDescriptor(threshold, xprv, publicKeys, path) ==
  L_shmulti \o ToString_(threshold) \o ToString_(xprv) \o <<",">>
    \o Join(publicKeys.a, <<",">>) \o ToString_(path) \o <<")", ")">>

\* createDescriptor from the check of the xprv to the end of its try body.
buildDescriptor(a, useMnemonic, xprv) ==
  LET type == Field(a, "type")
      path0 == Field(a, "path")
      publicKeys == Field(a, "publicKeys")
      threshold == Field(a, "threshold")
      path == IF ~_exists(path0) THEN Str(L_defaultPath) ELSE path0
  IN  IF ~useMnemonic /\ ~_exists(xprv) THEN Thrown(MsgXprvRequired)
      ELSE IF type # Str(L_MULTI) THEN Value(Str(singleDescriptor(type, xprv, path)))
      ELSE IF checkMulti(threshold, publicKeys) # "ok"
           THEN Thrown(checkMulti(threshold, publicKeys))
      ELSE Value(Str(multiDescriptor(threshold, xprv, publicKeys, path)))

Types ==
  {UNDEF, NULL, EmptyStr, Str(L_default), Str(L_p2wpkh), Str(L_wpkh), Str(L_p2pkh),
   Str(L_pkh), Str(L_shp2wpkh), Str(L_p2shp2wpkh), Str(L_MULTI), Chr("?")}
Xprvs == {UNDEF, NULL, EmptyStr, Chr("X")}
DescMnemonics == {UNDEF, Chr("m")}
DescNetworks == {UNDEF, Str(L_testnet)}
Paths == {UNDEF, EmptyStr, Str(<<"/", "4", "9", "'", "/", "*">>)}
Keys == {Chr("A"), Chr("B")}
RECURSIVE KeyLists(_)
KeyLists(n) ==
  IF n = 0 THEN {<< >>}
  ELSE KeyLists(n - 1) \cup {Append(l, k) : l \in {x \in KeyLists(n - 1) : Len(x) = n - 1}, k \in Keys}
PublicKeys == {UNDEF} \cup {Arr(l) : l \in KeyLists(MaxKeys)}
Thresholds == {UNDEF, NULL} \cup {Num(n) : n \in (0 - MaxNegThreshold)..MaxThreshold}

\* A request of type MULTI carries any threshold and publicKeys; the other
\* types ignore both fields.
DescriptorRequests ==
  {Obj([type |-> t, mnemonic |-> m, password |-> UNDEF, network |-> n, xprv |-> x,
        path |-> p, publicKeys |-> k, threshold |-> h]) :
     t \in Types, m \in DescMnemonics, n \in DescNetworks, x \in Xprvs, p \in Paths,
     k \in PublicKeys, h \in Thresholds}

createDescriptor ==
  \E a \in {r \in DescriptorRequests :
              r.f.type # Str(L_MULTI) => r.f.publicKeys = UNDEF /\ r.f.threshold = UNDEF}
           \cup {UNDEF, NULL} :
    /\ Begin("createDescriptor", a)
    /\ IF Nullish(a)
       THEN /\ calls' = << >>
            /\ Return(Thrown(TypeError), 0)
       ELSE LET c == checkKeySource(Field(a, "xprv"), Field(a, "mnemonic"), Field(a, "network"))
            IN  IF c = "derive" THEN Suspend("await", <<getExtendedKeyInfoCall(a)>>)
                ELSE /\ calls' = << >>
                     /\ Return(IF c = "ok" THEN buildDescriptor(a, FALSE, Field(a, "xprv"))
                               ELSE Thrown(c), 0)

\* xprv = await (await this.createXprv({ network, mnemonic, password })).data;
createDescriptorResume ==
  /\ pc = "await"
  /\ op = "createDescriptor"
  /\ \E o \in EngineOutcomes("getExtendedKeyInfo") :
       /\ calls' = Settle(calls, o)
       /\ Return(buildDescriptor(args, TRUE, DataOf(Envelope(createXprvBody(o)))), returned)
  /\ UNCHANGED <<op, args>>

(***************************************************************************)
(* createWallet                                                            *)
(***************************************************************************)
MsgWalletMissing == "Required param mnemonic or descriptor is missing."
MsgWalletBoth == "Only one parameter is required either mnemonic or descriptor."
MsgDescriptorInvalid == "Descriptor is not valid."

\* The checks of createWallet: the message thrown, or "ok".
checkWallet(descriptor, mnemonic, network) ==
  IF ~_exists(descriptor) /\ ~_exists(mnemonic) THEN MsgWalletMissing
  ELSE IF _exists(descriptor) /\ _exists(mnemonic) THEN MsgWalletBoth
  ELSE LET useDescriptor == _exists(descriptor)
       IN  IF useDescriptor /\ includes(descriptor.s, " ") THEN MsgDescriptorInvalid
           ELSE IF ~useDescriptor /\ (~_exists(mnemonic) \/ ~_exists(network))
                THEN MsgMnemonicNetwork
           ELSE "ok"

\* v ?? ''
OrEmpty(v) == IF Nullish(v) THEN EmptyStr ELSE v

WalletFields ==
  <<"mnemonic", "password", "network", "blockChainConfigUrl", "blockChainSocket5",
    "retry", "timeOut", "blockChainName", "descriptor">>

createWalletCall(a) ==
  EngineCall("createWallet", [i \in 1..Len(WalletFields) |-> OrEmpty(Field(a, WalletFields[i]))])

DescChars == {"d", " ", "\t", "\n"}
RECURSIVE Strings(_, _)
\* The strings over an alphabet, up to a length.
Strings(chars, n) ==
  IF n = 0 THEN {<< >>}
  ELSE Strings(chars, n - 1)
         \cup {Append(x, c) : x \in {y \in Strings(chars, n - 1) : Len(y) = n - 1}, c \in chars}
Descriptors == {UNDEF, NULL} \cup {Str(x) : x \in Strings(DescChars, MaxDescLen)}

WalletRequests ==
  {Obj([mnemonic |-> m, descriptor |-> d, password |-> p, network |-> n,
        blockChainConfigUrl |-> u, retry |-> r]) :
     m \in Mnemonics, d \in Descriptors, p \in Passwords, n \in KeyNetworks,
     u \in {NULL, Chr("u")}, r \in {UNDEF, Num(5)}}

createWallet ==
  \E a \in WalletRequests \cup {UNDEF, NULL} :
    /\ Begin("createWallet", a)
    /\ IF Nullish(a)
       THEN /\ calls' = << >>
            /\ Return(Thrown(TypeError), 0)
       ELSE LET c == checkWallet(Field(a, "descriptor"), Field(a, "mnemonic"), Field(a, "network"))
            IN  IF c = "ok" THEN Suspend("await", <<createWalletCall(a)>>)
                ELSE /\ calls' = << >>
                     /\ Return(Thrown(c), 0)

createWalletResume == Resume("createWallet")

(***************************************************************************)
(* syncWallet, getNewAddress, getBalance, getPendingTransactions,          *)
(* getConfirmedTransactions: one engine call without arguments.            *)
(***************************************************************************)
PassThrough(name) ==
  /\ Begin(name, UNDEF)
  /\ Suspend("await", <<EngineCall(name, << >>)>>)

syncWallet == PassThrough("syncWallet")
syncWalletResume == Resume("syncWallet")
getNewAddress == PassThrough("getNewAddress")
getNewAddressResume == Resume("getNewAddress")
getBalance == PassThrough("getBalance")
getBalanceResume == Resume("getBalance")
getPendingTransactions == PassThrough("getPendingTransactions")
getPendingTransactionsResume == Resume("getPendingTransactions")
getConfirmedTransactions == PassThrough("getConfirmedTransactions")
getConfirmedTransactionsResume == Resume("getConfirmedTransactions")

(***************************************************************************)
(* broadcastTx                                                             *)
(***************************************************************************)
MsgBroadcastMissing == "Required address or amount parameters are missing."
MsgAmountInvalid == "Entered amount is invalid"

\* checkBroadcast with the numeric check made first.
checkBroadcastNumericFirst(address, amount) ==
  IF isNaN(amount) THEN MsgAmountInvalid
  ELSE IF ~_exists(address) \/ ~_exists(amount) THEN MsgBroadcastMissing
  ELSE "ok"

\* The checks of broadcastTx: the message thrown, or "ok".
checkBroadcast(address, amount) ==
  IF ~_exists(address) \/ ~_exists(amount) THEN MsgBroadcastMissing
  ELSE IF isNaN(amount) THEN MsgAmountInvalid
  ELSE "ok"

AmountChars == {"1", "x", " "}
Addresses == {UNDEF, NULL, EmptyStr, Chr("a")}
Amounts ==
  {UNDEF, NULL, NaN, Num(0), Num(5)} \cup {Str(x) : x \in Strings(AmountChars, MaxAmountLen)}

BroadcastRequests == {Obj([address |-> d, amount |-> m]) : d \in Addresses, m \in Amounts}

broadcastTx ==
  \E a \in BroadcastRequests \cup {UNDEF, NULL} :
    /\ Begin("broadcastTx", a)
    /\ IF Nullish(a)
       THEN /\ calls' = << >>
            /\ Return(Thrown(TypeError), 0)
       ELSE LET c == checkBroadcast(Field(a, "address"), Field(a, "amount"))
            IN  IF c = "ok"
                THEN Suspend("await",
                       <<EngineCall("broadcastTx", <<Field(a, "address"), Field(a, "amount")>>)>>)
                ELSE /\ calls' = << >>
                     /\ Return(Thrown(c), 0)

broadcastTxResume == Resume("broadcastTx")

(***************************************************************************)
(* getTransactions                                                         *)
(***************************************************************************)
\* getTransactions with the two calls issued together, as under Promise.all.
getTransactionsConcurrent ==
  /\ Begin("getTransactions", UNDEF)
  /\ Suspend("awaitConfirmed", <<EngineCall("getConfirmedTransactions", << >>),
                                 EngineCall("getPendingTransactions", << >>)>>)

\* const confirmed = await this._bdk.getConfirmedTransactions();
getTransactions ==
  /\ Begin("getTransactions", UNDEF)
  /\ Suspend("awaitConfirmed", <<EngineCall("getConfirmedTransactions", << >>)>>)

\* The continuation of getTransactions once the confirmed call has settled:
\* the calls of the invocation from then on.
afterConfirmed(cs, o) ==
  IF o.thrown THEN Settle(cs, o)
  ELSE Append(Settle(cs, o), EngineCall("getPendingTransactions", << >>))

\* const pending = await this._bdk.getPendingTransactions();
getTransactionsConfirmed ==
  /\ pc = "awaitConfirmed"
  /\ \E o \in EngineOutcomes("getConfirmedTransactions") :
       /\ calls' = afterConfirmed(calls, o)
       /\ IF o.thrown
          THEN Return(o, returned)
          ELSE /\ pc' = "awaitPending"
               /\ UNCHANGED <<result, returned, escaped>>
  /\ UNCHANGED <<op, args>>

\* const response = { confirmed, pending }; return success(response);
transactionsResponse(confirmed, pending) == Obj([confirmed |-> confirmed, pending |-> pending])

getTransactionsPending ==
  /\ pc = "awaitPending"
  /\ \E o \in EngineOutcomes("getPendingTransactions") :
       /\ calls' = Settle(calls, o)
       /\ Return(IF o.thrown THEN o
                 ELSE Value(transactionsResponse(calls[1].outcome.v, o.v)), returned)
  /\ UNCHANGED <<op, args>>

Next ==
  \/ generateMnemonic
  \/ generateMnemonicResume
  \/ createExtendedKey
  \/ createExtendedKeyResume
  \/ createXprv
  \/ createXprvResume
  \/ createDescriptor
  \/ createDescriptorResume
  \/ createWallet
  \/ createWalletResume
  \/ syncWallet
  \/ syncWalletResume
  \/ getNewAddress
  \/ getNewAddressResume
  \/ getBalance
  \/ getBalanceResume
  \/ broadcastTx
  \/ broadcastTxResume
  \/ getPendingTransactions
  \/ getPendingTransactionsResume
  \/ getConfirmedTransactions
  \/ getConfirmedTransactionsResume
  \/ getTransactions
  \/ getTransactionsConfirmed
  \/ getTransactionsPending
  \/ nextInvocation

Spec == Init /\ [][Next]_vars

(***************************************************************************)
(* Vocabulary of the properties.                                           *)
(***************************************************************************)
\* A field is supplied: not null, not undefined, not the empty string.
Supplied(v) == v \notin {UNDEF, NULL, EmptyStr}

Requested(name) == op = name /\ ~Nullish(args)
Completed(name) == Requested(name) /\ pc = "done"

DefaultPathText == <<"/","8","4","'","/","1","'","/","0","'","/","0","/","*">>
PathText(a) == IF Supplied(a.f.path) THEN a.f.path.s ELSE DefaultPathText

WpkhTypes == {Str(L_default), EmptyStr, NULL, UNDEF, Str(L_p2wpkh), Str(L_wpkh)}
PkhTypes == {Str(L_p2pkh), Str(L_pkh)}
ShWpkhTypes == {Str(L_shp2wpkh), Str(L_p2shp2wpkh)}

\* The key source of a createDescriptor request is valid.
ValidKeySource(a) ==
  \/ Supplied(a.f.xprv) /\ ~Supplied(a.f.mnemonic)
  \/ ~Supplied(a.f.xprv) /\ Supplied(a.f.mnemonic) /\ Supplied(a.f.network)

\* C1: a createDescriptor request with a supplied xprv X and path P that
\* succeeds returns wpkh(XP), pkh(XP), sh(wpkh(XP)) or
\* sh(multi(<threshold>X,<keys joined by ','>P)) according to its type.
C1_DescriptorText ==
  (Completed("createDescriptor") /\ Supplied(args.f.xprv) /\ result.ok) =>
    LET X == args.f.xprv.s
        P == PathText(args)
        type == args.f.type
    IN  /\ type \in WpkhTypes => result.data = Str(<<"w","p","k","h","(">> \o X \o P \o <<")">>)
        /\ type \in PkhTypes => result.data = Str(<<"p","k","h","(">> \o X \o P \o <<")">>)
        /\ type \in ShWpkhTypes =>
             result.data = Str(<<"s","h","(","w","p","k","h","(">> \o X \o P \o <<")",")">>)
        /\ type = Str(L_MULTI) =>
             result.data = Str(<<"s","h","(","m","u","l","t","i","(">>
                                 \o NumberToString(args.f.threshold.n) \o X \o <<",">>
                                 \o Join(args.f.publicKeys.a, <<",">>) \o P \o <<")",")">>)

\* C1 without the sh(wpkh( types: the part of C1 the code satisfies.
C1_DescriptorTextOtherTypes ==
  (Completed("createDescriptor") /\ args.f.type \notin ShWpkhTypes) => C1_DescriptorText

\* C2: a MULTI request with a valid key source, an integer threshold and a
\* publicKeys list succeeds exactly when the list is non-empty and
\* 1 <= threshold <= length + 1.
C2_ThresholdBounds ==
  (/\ Completed("createDescriptor")
   /\ args.f.type = Str(L_MULTI)
   /\ ValidKeySource(args)
   /\ IsNum(args.f.threshold)
   /\ args.f.publicKeys # UNDEF) =>
    (result.ok <=> /\ Len(args.f.publicKeys.a) > 0
                   /\ 1 <= args.f.threshold.n
                   /\ args.f.threshold.n <= Len(args.f.publicKeys.a) + 1)

\* C2 for thresholds that are not negative: the part of C2 the code satisfies.
C2_ThresholdBoundsNonNegative ==
  (Completed("createDescriptor") /\ IsNum(args.f.threshold) /\ args.f.threshold.n >= 0)
    => C2_ThresholdBounds

\* C3: createDescriptor checks its key source in order (neither supplied,
\* both supplied, mnemonic without network), fails with the message of the
\* first violation without calling the engine, and calls getExtendedKeyInfo
\* only for a mnemonic with a network and no xprv.
C3_KeySourceOrder ==
  Requested("createDescriptor") =>
    LET x == Supplied(args.f.xprv)
        m == Supplied(args.f.mnemonic)
        n == Supplied(args.f.network)
    IN  /\ (~x /\ ~m) => (pc = "done" /\ result = failure(MsgKeyMissing) /\ calls = << >>)
        /\ (x /\ m) => (pc = "done" /\ result = failure(MsgKeyBoth) /\ calls = << >>)
        /\ (~x /\ m /\ ~n) =>
             (pc = "done" /\ result = failure(MsgMnemonicNetwork) /\ calls = << >>)
        /\ \A i \in 1..Len(calls) :
             /\ calls[i].name = "getExtendedKeyInfo"
             /\ m /\ ~x /\ n

C3_Witness ==
  /\ Completed("createDescriptor")
  /\ ~Supplied(args.f.xprv) /\ Supplied(args.f.mnemonic) /\ ~Supplied(args.f.network)
  /\ result = failure(MsgMnemonicNetwork)

\* C4: createWallet calls the engine's createWallet exactly when one of
\* descriptor and mnemonic is supplied, a supplied descriptor holds no
\* white space (space, tab, newline), and a supplied mnemonic comes with a
\* network; otherwise it fails without calling the engine.
C4_WalletEngineIff ==
  Requested("createWallet") =>
    LET d == Supplied(args.f.descriptor)
        m == Supplied(args.f.mnemonic)
        valid == /\ d # m
                 /\ d => \A i \in 1..Len(args.f.descriptor.s) :
                           args.f.descriptor.s[i] \notin WhiteSpace
                 /\ m => Supplied(args.f.network)
    IN  /\ calls # << >> <=> valid
        /\ ~valid => (pc = "done" /\ ~result.ok)

\* C5: the word count generateMnemonic forwards is the mapped value of the
\* entropy whenever entropy is supplied (with or without a word count), the
\* word count when only it is supplied, and 12 when neither is.
\* (Stated for the five entropy selectors of the mapping and a word count
\* other than 0.)
C5_WordCount ==
  (/\ Requested("generateMnemonic")
   /\ args.f.entropy \in {UNDEF, Num(128), Num(160), Num(192), Num(224), Num(256)}
   /\ args.f.length # Num(0)) =>
    /\ calls # << >>
    /\ calls[1].args[1] =
         CASE args.f.entropy = Num(128) -> Num(12)
           [] args.f.entropy = Num(160) -> Num(15)
           [] args.f.entropy = Num(192) -> Num(18)
           [] args.f.entropy = Num(224) -> Num(21)
           [] args.f.entropy = Num(256) -> Num(24)
           [] OTHER -> IF args.f.length = UNDEF THEN Num(12) ELSE args.f.length

\* C5 when entropy is not the only field supplied: the part of C5 the code
\* satisfies.
C5_WordCountNotEntropyAlone ==
  (Requested("generateMnemonic") /\ ~(args.f.entropy # UNDEF /\ args.f.length = UNDEF))
    => C5_WordCount

\* C4 with the space as the only white space: the part of C4 the code
\* satisfies.
C4_WalletEngineIffSpaceOnly ==
  (Requested("createWallet") /\ ~(\E i \in 1..Len(OrEmpty(args.f.descriptor).s) :
                                     args.f.descriptor.s[i] \in {"\t", "\n"}))
    => C4_WalletEngineIff

\* C6: every invocation ends by returning exactly one envelope, a failure
\* when a condition was thrown in its body and a success otherwise, and no
\* exception reaches the caller.
C6_OneEnvelope ==
  /\ ~escaped
  /\ pc # "done" => (returned = 0 /\ result = NoResult)
  /\ pc = "done" =>
       /\ returned = 1
       /\ \/ result.ok /\ DOMAIN result = {"ok", "data"}
          \/ ~result.ok /\ DOMAIN result = {"ok", "error"}
       \* a missing or null request record: reading a field of it throws
       /\ (Nullish(args) /\ op \in {"createExtendedKey", "createXprv", "createDescriptor",
                                    "createWallet", "broadcastTx"})
            => result = failure(TypeError)
       /\ (op = "generateMnemonic" /\ args = NULL) => result = failure(TypeError)
       \* no engine call: a validation error was thrown, unless the operation
       \* is createDescriptor building from a supplied xprv
       /\ (calls = << >> /\ ~(op = "createDescriptor" /\ ~Nullish(args))) => ~result.ok
       \* an engine call that threw, in the body of any operation but
       \* createDescriptor (whose engine call is in the body of createXprv)
       /\ (calls # << >> /\ calls[Len(calls)].outcome.thrown /\ op # "createDescriptor")
            => result = failure(calls[Len(calls)].outcome.e)
       \* every engine call returned and nothing else throws
       /\ (calls # << >> /\ ~calls[Len(calls)].outcome.thrown
             /\ op \notin {"createDescriptor", "createXprv"})
            => result.ok

C6_Witness ==
  /\ pc = "done"
  /\ op = "createWallet"
  /\ args = NULL
  /\ result = failure(TypeError)
  /\ returned = 1

\* Digits with white space around them, or white space alone: the strings
\* that convert to a number.
NumericText(s) ==
  /\ \A i \in 1..Len(s) : s[i] \in DigitSet \cup WhiteSpace
  /\ \A i, j, k \in 1..Len(s) :
       (i < j /\ j < k /\ s[i] \in DigitSet /\ s[k] \in DigitSet) => s[j] \in DigitSet

\* An amount is numeric: a number, or a string that converts to one.
Numeric(v) == IsNum(v) \/ (IsStr(v) /\ NumericText(v.s))

\* C7: broadcastTx calls the engine's broadcastTx(address, amount) only for a
\* supplied address and a supplied numeric amount; it fails with the
\* "missing" message when either is absent, with the "invalid" message when
\* both are present and the amount is not numeric, and calls nothing then.
C7_BroadcastChecks ==
  Requested("broadcastTx") =>
    LET present == Supplied(args.f.address) /\ Supplied(args.f.amount)
    IN  /\ calls # << >> =>
             /\ present /\ Numeric(args.f.amount)
             /\ Len(calls) = 1
             /\ calls[1].name = "broadcastTx"
             /\ calls[1].args = <<args.f.address, args.f.amount>>
        /\ ~present =>
             (pc = "done" /\ result = failure(MsgBroadcastMissing) /\ calls = << >>)
        /\ (present /\ ~Numeric(args.f.amount)) =>
             (pc = "done" /\ result = failure(MsgAmountInvalid) /\ calls = << >>)

C7_Witness ==
  /\ Completed("broadcastTx")
  /\ Supplied(args.f.address)
  /\ IsStr(args.f.amount) /\ Supplied(args.f.amount) /\ ~Numeric(args.f.amount)
  /\ result = failure(MsgAmountInvalid)

\* C8: getTransactions calls getConfirmedTransactions first and
\* getPendingTransactions only once it has returned, never both at a time;
\* a failed confirmed call ends the invocation with a failure and no pending
\* call, a failed pending call with a failure without confirmed data, and
\* two returns with the success {confirmed, pending} of the two values.
C8_Sequential ==
  op = "getTransactions" =>
    /\ Cardinality(InFlight) <= 1
    /\ Len(calls) \in 1..2
    /\ calls[1].name = "getConfirmedTransactions"
    /\ pc = "awaitConfirmed" <=> calls[1].outcome = Pending
    /\ Len(calls) = 2 =>
         /\ calls[2].name = "getPendingTransactions"
         /\ calls[1].outcome # Pending
         /\ ~calls[1].outcome.thrown
    /\ pc = "done" =>
         IF calls[1].outcome.thrown
         THEN Len(calls) = 1 /\ ~result.ok
         ELSE /\ Len(calls) = 2
              /\ IF calls[2].outcome.thrown
                 THEN result = [ok |-> FALSE, error |-> calls[2].outcome.e]
                 ELSE result = [ok |-> TRUE,
                                data |-> Obj([confirmed |-> calls[1].outcome.v,
                                              pending |-> calls[2].outcome.v])]

C8_Witness ==
  /\ op = "getTransactions"
  /\ pc = "done"
  /\ result.ok
  /\ result.data.f.confirmed = Arr(<<Chr("c")>>)
  /\ result.data.f.pending = Arr(<<Chr("p")>>)

\* C9: the network generateMnemonic forwards to the engine is "testnet"
\* whenever the request carries a network value, and the request's own
\* (null, undefined or empty) value otherwise.
C9_NetworkForwarded ==
  (op = "generateMnemonic" /\ args # NULL) =>
    /\ Len(calls) = 1
    /\ calls[1].name = "generateMnemonic"
    /\ LET network == IF args = UNDEF THEN UNDEF ELSE args.f.network
       IN  calls[1].args[2] =
             IF Supplied(network) THEN Str(<<"t","e","s","t","n","e","t">>) ELSE network

C9_Witness ==
  /\ Requested("generateMnemonic")
  /\ args.f.network = Str(L_bitcoin)
  /\ pc = "done"
  /\ calls[1].args[2] = Str(L_testnet)

\* C10: on the mnemonic path, createDescriptor fails when getExtendedKeyInfo
\* fails or returns a record without xprv; a success embeds the xprv the
\* engine returned.
C10_DerivedXprvOnly ==
  (Completed("createDescriptor") /\ calls # << >>) =>
    LET o == calls[1].outcome
        derived == ~o.thrown /\ ~Nullish(o.v) /\ "xprv" \in DOMAIN o.v.f
    IN  /\ ~derived => ~result.ok
        /\ (result.ok /\ args.f.type \in WpkhTypes) =>
             (derived /\ result.data = Str(<<"w","p","k","h","(">> \o o.v.f.xprv.s
                                             \o PathText(args) \o <<")">>))

\* C10 when the engine returns a record with an xprv: the part of C10 the
\* code satisfies.
C10_DerivedXprvReturned ==
  (Completed("createDescriptor") /\ calls # << >> /\ ~calls[1].outcome.thrown
     /\ calls[1].outcome.v \in {k \in KeyInfos : k # NULL /\ "xprv" \in DOMAIN k.f})
    => C10_DerivedXprvOnly

====
